---- MODULE Spec2Model ----
(***************************************************************************)
(* Account-management API of julseb-lib-server-flask: the users collection *)
(* and the request handlers of routes/auth.py, routes/users.py and         *)
(* routes/admin.py, one action per handler.                                *)
(*                                                                         *)
(* A document is a function from its keys to values, so that a missing     *)
(* key is really missing (Python dict / BSON document).  The collection    *)
(* is the sequence of its documents in insertion order: find_one returns   *)
(* the first match.                                                        *)
(***************************************************************************)
EXTENDS Integers, Sequences, FiniteSets, TLC

\* ---- bounds of the model ------------------------------------------------
MaxUsers == 3        \* ObjectIds the store hands out (seeded documents included)
MaxRequests == 3     \* requests served in one run

\* ---- input domains --------------------------------------------------------
None == "None"                       \* Python None / JSON null
Emails == {"julien@admin.com", "ada@x.com"}
Passwords == {"Password42", "NewPass1"}
RandomStrings == {"T1", "T2"}        \* results of get_random_string()
Salts == {"salt1"}                   \* results of gensalt(10) in the handlers
SuppliedTokens == RandomStrings \cup {None, ""}
TOKEN_SECRET == "TOKEN_SECRET"
NOW == "datetime(now)"               \* datetime.now(timezone.utc)

VARIABLES
    users_col,   \* the users collection: sequence of documents
    nextOid,     \* next ObjectId the store assigns
    req,         \* the last request: [op, ...] with the fields of its URL and JSON body
    resp,        \* its response: [status, body]
    sent,        \* e-mails handed to SMTP by the last request
    served,      \* number of requests served
    held,        \* what a client kept of a response that carried a session token
    handlers     \* per worker: the request it is serving and where in the handler it is

vars == <<users_col, nextOid, req, resp, sent, served, held, handlers>>

\* ---- pure helpers ---------------------------------------------------------

\* str(ObjectId) and ObjectId(str)
OidStr(n) == ToString(n)
IdStrings == {OidStr(n) : n \in 1..MaxUsers}
ObjectId(s) == CHOOSE n \in 1..MaxUsers : OidStr(n) = s

\* datetime.isoformat(); calling it on a str raises AttributeError
IsDatetime(v) == v = NOW
isoformat(v) == "iso(now)"

\* bcrypt: hashpw(password, salt) and checkpw(password, hashed).
\* A value that is not a bcrypt hash is a 1-tuple holding the text.
hashpw(pw, salt) == <<"$2b$10$", salt, pw>>
PlainText(text) == <<text>>
WellFormedHash(h) == Len(h) = 3 /\ h[1] = "$2b$10$"
checkpw(pw, h) == h[3] = pw

\* dict(**a, **b) / {"$set": b}: keys of b override keys of a
Merge(a, b) ==
    [k \in DOMAIN a \cup DOMAIN b |-> IF k \in DOMAIN b THEN b[k] ELSE a[k]]

\* dict.get(key): None when the key is missing
Get(doc, key) == IF key \in DOMAIN doc THEN doc[key] ELSE None

\* jwt.encode({"user": user}, key=TOKEN_SECRET, algorithm="HS256")
\* json.dumps of the payload raises TypeError on a datetime value
\* (created_at and updated_at are the keys that hold one)
JsonSerializable(doc) ==
    \A k \in DOMAIN doc \cap {"created_at", "updated_at"} : ~IsDatetime(doc[k])
jwt_encode(user, key) == [payload |-> [user |-> user], key |-> key, alg |-> "HS256"]

\* ---- the collection -------------------------------------------------------

Matches(doc, query) ==
    \A k \in DOMAIN query : k \in DOMAIN doc /\ doc[k] = query[k]

\* index of the first document matching the query, 0 when there is none
find_one(col, query) ==
    IF \E i \in 1..Len(col) : Matches(col[i], query)
    THEN CHOOSE i \in 1..Len(col) :
            /\ Matches(col[i], query)
            /\ \A j \in 1..(i - 1) : ~Matches(col[j], query)
    ELSE 0

\* find_one_and_update(query, {"$set": patch})
find_one_and_update(col, query, patch) ==
    LET i == find_one(col, query)
    IN  IF i = 0 THEN col ELSE [col EXCEPT ![i] = Merge(col[i], patch)]

\* find_one_and_delete(query)
find_one_and_delete(col, query) ==
    LET i == find_one(col, query)
    IN  IF i = 0 THEN col
        ELSE [j \in 1..(Len(col) - 1) |-> IF j < i THEN col[j] ELSE col[j + 1]]

\* the document as the handlers return it: _id rendered as a string
WithStrId(doc) == [doc EXCEPT !["_id"] = OidStr(doc["_id"])]

\* ---- responses ------------------------------------------------------------

Message(status, msg) == [status |-> status, body |-> [message |-> msg]]
\* variant of UserAndToken whose token embeds the user without the password
UserAndToken_redacted(status, user) ==
    [status |-> status,
     body |-> [user |-> user,
               authToken |-> jwt_encode([k \in DOMAIN user \ {"password"} |-> user[k]],
                                        TOKEN_SECRET)]]

UserAndToken(status, user) ==
    [status |-> status,
     body |-> [user |-> user, authToken |-> jwt_encode(user, TOKEN_SECRET)]]
\* an exception that escapes the handler: Flask answers 500
Unhandled(exc) == [status |-> 500, body |-> [exception |-> exc]]

\* the client holds no session
NoSession == [message |-> "no session"]

\* the server's workers, each serving one request at a time
Workers == {1, 2}
\* a worker that is serving no request
Idle == [op |-> "none", pc |-> "idle"]

Mail(to, kind, id, token) == [to |-> to, kind |-> kind, id |-> id, token |-> token]

\* ---- the Authorization header and its session token ----------------------
\* The value of the Authorization header is a sequence of atoms: pieces of
\* text, the space character, and session tokens.

Text(t) == [text |-> t]
SP == Text(" ")
Bearer(token) == << Text("Bearer"), SP, token >>

\* str.split(" "): the parts between the spaces, empty parts included
RECURSIVE Split(_)
Split(s) ==
    IF \E i \in 1..Len(s) : s[i] = SP
    THEN LET i == CHOOSE k \in 1..Len(s) :
                     s[k] = SP /\ \A j \in 1..(k - 1) : s[j] # SP
         IN  << SubSeq(s, 1, i - 1) >> \o Split(SubSeq(s, i + 1, Len(s)))
    ELSE << s >>

\* jwt.decode(token, key=TOKEN_SECRET, algorithms=["HS256"]): the payload, or
\* InvalidTokenError for a string that is not a token, a wrong algorithm or a
\* signature made with another key
InvalidTokenError == [exception |-> "InvalidTokenError"]

\* variant of jwt_decode that does not verify the signature
jwt_decode_unverified(part, key) ==
    IF Len(part) = 1 /\ "payload" \in DOMAIN part[1]
    THEN part[1].payload
    ELSE InvalidTokenError

jwt_decode(part, key) ==
    IF /\ Len(part) = 1
       /\ "payload" \in DOMAIN part[1]
       /\ part[1].alg = "HS256"
       /\ part[1].key = key
    THEN part[1].payload
    ELSE InvalidTokenError

\* request headers: a function from header names to values
NoHeaders == [h \in {} |-> << >>]
WithAuthorization(value) == [authorization |-> value]

\* the response of logged_in to the request headers
ValidateSession(headers) ==
    IF "authorization" \notin DOMAIN headers \/ headers.authorization = << >>
    THEN Message(401, "Authorization header missing")
    ELSE LET bearer == Split(headers.authorization)
         IN  IF bearer[1] = << Text("Bearer") >> /\ Len(bearer) > 1
             THEN LET auth_token == jwt_decode(bearer[2], TOKEN_SECRET)
                  IN  IF auth_token = InvalidTokenError
                      THEN Message(401, "Invalid token")
                      ELSE [status |-> 200, body |-> [user |-> auth_token.user]]
             ELSE Message(401, "Invalid authorization header")

\* ---- seed/seed_users.py ---------------------------------------------------
\* The two real_users; every seeded document shares one hash of "Password42"
\* and keeps its timestamps as datetimes.  The NUM_USERS Faker documents have
\* the shape of "Julien User" with other emails and are left out.

SeedUser(oid, name, email, role, token) ==
    [_id |-> oid, fullName |-> name, email |-> email,
     password |-> hashpw("Password42", "salt0"), avatar |-> "",
     role |-> role, verified |-> TRUE, verifyToken |-> token,
     created_at |-> NOW, updated_at |-> NOW]

real_users ==
    << SeedUser(1, "Julien Admin", "julien@admin.com", "admin", "T1"),
       SeedUser(2, "Julien User", "julien@user.com", "user", "T2") >>

\* The collection is empty, or holds what the seed script inserted.
Init ==
    /\ \/ users_col = << >> /\ nextOid = 1
       \/ users_col = real_users /\ nextOid = 3
    /\ req = [op |-> "none"]
    /\ resp = Message(0, "")
    /\ sent = << >>
    /\ served = 0
    /\ held = NoSession
    /\ handlers = [w \in Workers |-> Idle]

\* ---- auth.signup ----------------------------------------------------------

\* keys a caller may add to the signup payload next to the three expected ones
SignupExtras ==
    { [x \in {} |-> None],
      [role |-> "admin", verified |-> TRUE] }

SignupData ==
    { Merge([fullName |-> "Ada", email |-> e, password |-> p], x) :
        e \in Emails, p \in Passwords, x \in SignupExtras }

\* variant of created_user in which the payload is spread last, so that
\* its role and verified keys survive
created_user_payload_last(data, salt, verify_token) ==
    Merge([fullName |-> data.fullName,
           email |-> data.email,
           password |-> hashpw(data.password, salt),
           avatar |-> "avatar",
           role |-> "user",
           verified |-> FALSE,
           verifyToken |-> verify_token,
           created_at |-> isoformat(NOW),
           updated_at |-> isoformat(NOW)],
          [k \in DOMAIN data \ {"fullName", "email", "password"} |-> data[k]])

created_user(data, salt, verify_token) ==
    Merge(data,
          [fullName |-> data.fullName,
           email |-> data.email,
           password |-> hashpw(data.password, salt),
           avatar |-> "avatar",
           role |-> "user",
           verified |-> FALSE,
           verifyToken |-> verify_token,
           created_at |-> isoformat(NOW),
           updated_at |-> isoformat(NOW)])

\* variant of signup without the found_email check
signup_unchecked(data, salt, verify_token, smtp_ok) ==
    /\ served < MaxRequests
    /\ served' = served + 1
    /\ UNCHANGED <<held, handlers>>
    /\ req' = [op |-> "signup", data |-> data]
    /\ nextOid <= MaxUsers
    /\ LET doc == Merge(created_user(data, salt, verify_token), [_id |-> nextOid])
           user == WithStrId(doc)
       IN  /\ users_col' = Append(users_col, doc)
           /\ nextOid' = nextOid + 1
           /\ sent' = IF smtp_ok
                      THEN << Mail(data.email, "verify", user["_id"], verify_token) >>
                      ELSE << >>
           /\ resp' = IF smtp_ok THEN UserAndToken(201, user)
                                 ELSE Unhandled("SMTPException")

signup(data, salt, verify_token, smtp_ok) ==
    /\ served < MaxRequests
    /\ served' = served + 1
    /\ UNCHANGED <<held, handlers>>
    /\ req' = [op |-> "signup", data |-> data]
    /\ IF find_one(users_col, [email |-> data.email]) # 0
       THEN /\ resp' = Message(400, "This email is already taken")
            /\ UNCHANGED <<users_col, nextOid>>
            /\ sent' = << >>
       ELSE /\ nextOid <= MaxUsers
            /\ LET doc == Merge(created_user(data, salt, verify_token), [_id |-> nextOid])
                   user == WithStrId(doc)
               IN  /\ users_col' = Append(users_col, doc)
                   /\ nextOid' = nextOid + 1
                   /\ IF smtp_ok
                      THEN /\ sent' = << Mail(data.email, "verify", user["_id"], verify_token) >>
                           /\ resp' = UserAndToken(201, user)
                      ELSE /\ sent' = << >>
                           /\ resp' = Unhandled("SMTPException")

\* ---- auth.login -----------------------------------------------------------

\* variant of login that records the attempt on the document it found
login_recording(email, password) ==
    /\ served < MaxRequests
    /\ served' = served + 1
    /\ UNCHANGED <<held, handlers>>
    /\ req' = [op |-> "login", email |-> email, password |-> password]
    /\ UNCHANGED nextOid
    /\ sent' = << >>
    /\ users_col' = find_one_and_update(users_col, [email |-> email],
                                        [lastLogin |-> isoformat(NOW)])
    /\ LET i == find_one(users_col, [email |-> email])
       IN  IF i = 0
           THEN resp' = Message(400, "User not found")
           ELSE LET found_user == users_col[i]
                    stored_hash == found_user.password
                IN  IF ~WellFormedHash(stored_hash)
                    THEN resp' = Unhandled("ValueError")
                    ELSE IF checkpw(password, stored_hash)
                    THEN IF IsDatetime(found_user.created_at) /\ IsDatetime(found_user.updated_at)
                         THEN resp' = UserAndToken(201,
                                        [WithStrId(found_user) EXCEPT
                                            !.created_at = isoformat(found_user.created_at),
                                            !.updated_at = isoformat(found_user.updated_at)])
                         ELSE resp' = Unhandled("AttributeError")
                    ELSE resp' = Message(400, "Wrong password")

login(email, password) ==
    /\ served < MaxRequests
    /\ served' = served + 1
    /\ UNCHANGED <<held, handlers>>
    /\ req' = [op |-> "login", email |-> email, password |-> password]
    /\ UNCHANGED <<users_col, nextOid>>
    /\ sent' = << >>
    /\ LET i == find_one(users_col, [email |-> email])
       IN  IF i = 0
           THEN resp' = Message(400, "User not found")
           ELSE LET found_user == users_col[i]
                    stored_hash == found_user.password
                IN  IF ~WellFormedHash(stored_hash)
                    THEN resp' = Unhandled("ValueError")
                    ELSE IF checkpw(password, stored_hash)
                    THEN IF IsDatetime(found_user.created_at) /\ IsDatetime(found_user.updated_at)
                         THEN resp' = UserAndToken(201,
                                        [WithStrId(found_user) EXCEPT
                                            !.created_at = isoformat(found_user.created_at),
                                            !.updated_at = isoformat(found_user.updated_at)])
                         ELSE resp' = Unhandled("AttributeError")
                    ELSE resp' = Message(400, "Wrong password")

\* ---- auth.verify ----------------------------------------------------------

\* variant of verify that marks the document with that id as verified before
\* it looks at the token
verify_unguarded(id, token) ==
    /\ served < MaxRequests
    /\ served' = served + 1
    /\ UNCHANGED <<held, handlers>>
    /\ req' = [op |-> "verify", id |-> id, token |-> token]
    /\ UNCHANGED nextOid
    /\ sent' = << >>
    /\ users_col' = find_one_and_update(users_col, [_id |-> ObjectId(id)],
                                        [verified |-> TRUE])
    /\ LET i == find_one(users_col, [_id |-> ObjectId(id), verifyToken |-> token])
       IN  IF i # 0
           THEN LET user == WithStrId(users_col[i])
                IN  resp' = IF JsonSerializable(user)
                            THEN UserAndToken(200, user)
                            ELSE Unhandled("TypeError")
           ELSE resp' = Message(400, "User not found.")

verify(id, token) ==
    /\ served < MaxRequests
    /\ served' = served + 1
    /\ UNCHANGED <<held, handlers>>
    /\ req' = [op |-> "verify", id |-> id, token |-> token]
    /\ UNCHANGED nextOid
    /\ sent' = << >>
    /\ LET i == find_one(users_col, [_id |-> ObjectId(id), verifyToken |-> token])
       IN  IF i # 0
           THEN LET user == WithStrId(users_col[i])
                IN  /\ users_col' = find_one_and_update(users_col, [_id |-> ObjectId(id)],
                                                        [verified |-> TRUE])
                    /\ resp' = IF JsonSerializable(user)
                               THEN UserAndToken(200, user)
                               ELSE Unhandled("TypeError")
           ELSE /\ UNCHANGED users_col
                /\ resp' = Message(400, "User not found.")

\* ---- auth.forgot_password -------------------------------------------------

\* variant of forgot_password that keeps a resetToken the document already has
forgot_password_keeping(email, reset_token, smtp_ok) ==
    /\ served < MaxRequests
    /\ served' = served + 1
    /\ UNCHANGED <<held, handlers>>
    /\ req' = [op |-> "forgot_password", email |-> email]
    /\ UNCHANGED nextOid
    /\ LET i == find_one(users_col, [email |-> email])
       IN  IF i # 0
           THEN LET found_user == WithStrId(users_col[i])
                IN  /\ users_col' = IF "resetToken" \in DOMAIN users_col[i]
                                    THEN users_col
                                    ELSE find_one_and_update(users_col, [email |-> email],
                                                             [resetToken |-> reset_token])
                    /\ IF smtp_ok
                       THEN /\ sent' = << Mail(email, "reset", found_user["_id"], reset_token) >>
                            /\ resp' = Message(200, "Email has been sent!")
                       ELSE /\ sent' = << >>
                            /\ resp' = Unhandled("SMTPException")
           ELSE /\ UNCHANGED users_col
                /\ sent' = << >>
                /\ resp' = Message(400, "User not found")

forgot_password(email, reset_token, smtp_ok) ==
    /\ served < MaxRequests
    /\ served' = served + 1
    /\ UNCHANGED <<held, handlers>>
    /\ req' = [op |-> "forgot_password", email |-> email]
    /\ UNCHANGED nextOid
    /\ LET i == find_one(users_col, [email |-> email])
       IN  IF i # 0
           THEN LET found_user == WithStrId(users_col[i])
                IN  /\ users_col' = find_one_and_update(users_col, [email |-> email],
                                                        [resetToken |-> reset_token])
                    /\ IF smtp_ok
                       THEN /\ sent' = << Mail(email, "reset", found_user["_id"], reset_token) >>
                            /\ resp' = Message(200, "Email has been sent!")
                       ELSE /\ sent' = << >>
                            /\ resp' = Unhandled("SMTPException")
           ELSE /\ UNCHANGED users_col
                /\ sent' = << >>
                /\ resp' = Message(400, "User not found")

\* ---- auth.reset_password --------------------------------------------------

reset_password(id, password, reset_token, salt) ==
    /\ served < MaxRequests
    /\ served' = served + 1
    /\ UNCHANGED <<held, handlers>>
    /\ req' = [op |-> "reset_password", id |-> id, password |-> password,
               resetToken |-> reset_token]
    /\ UNCHANGED nextOid
    /\ sent' = << >>
    /\ LET i == find_one(users_col, [_id |-> ObjectId(id)])
       IN  IF i # 0
           THEN IF Get(users_col[i], "resetToken") # reset_token
                THEN /\ UNCHANGED users_col
                     /\ resp' = Message(400, "Reset token does not match")
                ELSE /\ users_col' = find_one_and_update(users_col, [_id |-> ObjectId(id)],
                                                         [password |-> hashpw(password, salt)])
                     /\ resp' = Message(200, "The new password has been saved!")
           ELSE /\ UNCHANGED users_col
                /\ resp' = Message(400, "User not found")

\* ---- users.edit_account ---------------------------------------------------

\* request bodies of edit_account: any JSON object is accepted
EditPatches ==
    { [fullName |-> "Eve"], [role |-> "admin"], [verified |-> TRUE],
      [email |-> "julien@admin.com"], [password |-> PlainText("Password42")] }

edit_account(id, data) ==
    /\ served < MaxRequests
    /\ served' = served + 1
    /\ UNCHANGED <<held, handlers>>
    /\ req' = [op |-> "edit_account", id |-> id, data |-> data]
    /\ UNCHANGED nextOid
    /\ sent' = << >>
    /\ LET i == find_one(users_col, [_id |-> ObjectId(id)])
       IN  IF i # 0
           THEN LET updated_user == WithStrId(Merge(users_col[i], data))
                IN  /\ users_col' = find_one_and_update(users_col, [_id |-> ObjectId(id)], data)
                    /\ resp' = IF JsonSerializable(updated_user)
                               THEN UserAndToken(201, updated_user)
                               ELSE Unhandled("TypeError")
           ELSE /\ UNCHANGED users_col
                /\ resp' = Message(400, "User not found")

\* ---- users.edit_password --------------------------------------------------

edit_password(id, old_password, new_password, salt) ==
    /\ served < MaxRequests
    /\ served' = served + 1
    /\ UNCHANGED <<held, handlers>>
    /\ req' = [op |-> "edit_password", id |-> id, oldPassword |-> old_password,
               newPassword |-> new_password]
    /\ UNCHANGED nextOid
    /\ sent' = << >>
    /\ LET i == find_one(users_col, [_id |-> ObjectId(id)])
       IN  IF i # 0
           THEN LET stored_hash == users_col[i].password
                    patch == [password |-> hashpw(new_password, salt)]
                    updated_user == WithStrId(Merge(users_col[i], patch))
                IN  IF ~WellFormedHash(stored_hash)
                    THEN /\ UNCHANGED users_col
                         /\ resp' = Unhandled("ValueError")
                    ELSE IF checkpw(old_password, stored_hash)
                    THEN /\ users_col' = find_one_and_update(users_col,
                                                [_id |-> ObjectId(id)], patch)
                         /\ resp' = IF JsonSerializable(updated_user)
                                    THEN UserAndToken(201, updated_user)
                                    ELSE Unhandled("TypeError")
                    ELSE /\ UNCHANGED users_col
                         /\ resp' = Message(400, "Old password does not match")
           ELSE /\ UNCHANGED users_col
                /\ resp' = Message(400, "User not found")

\* ---- users.delete_account -------------------------------------------------

delete_account(id) ==
    /\ served < MaxRequests
    /\ served' = served + 1
    /\ UNCHANGED <<held, handlers>>
    /\ req' = [op |-> "delete_account", id |-> id]
    /\ UNCHANGED nextOid
    /\ sent' = << >>
    /\ IF find_one(users_col, [_id |-> ObjectId(id)]) # 0
       THEN /\ users_col' = find_one_and_delete(users_col, [_id |-> ObjectId(id)])
            /\ resp' = Message(200, "Account has been deleted")
       ELSE /\ UNCHANGED users_col
            /\ resp' = Message(400, "User not found")

\* ---- admin.reset_password -------------------------------------------------

admin_reset_password(id, reset_token, smtp_ok, headers) ==
    /\ served < MaxRequests
    /\ served' = served + 1
    /\ UNCHANGED <<held, handlers>>
    /\ req' = [op |-> "admin_reset_password", id |-> id, headers |-> headers]
    /\ UNCHANGED nextOid
    /\ LET i == find_one(users_col, [_id |-> ObjectId(id)])
       IN  IF i # 0
           THEN LET found_user == users_col[i]
                IN  /\ users_col' = find_one_and_update(users_col, [_id |-> ObjectId(id)],
                                                        [resetToken |-> reset_token])
                    /\ IF smtp_ok
                       THEN /\ sent' = << Mail(found_user.email, "reset",
                                               OidStr(found_user["_id"]), reset_token) >>
                            /\ resp' = Message(200,
                                               "An email was just sent to reset their password!")
                       ELSE /\ sent' = << >>
                            /\ resp' = Unhandled("SMTPException")
           ELSE /\ UNCHANGED users_col
                /\ sent' = << >>
                /\ resp' = Message(400, "User not found")

\* ---- admin.delete_user ----------------------------------------------------

\* variant of delete_user that serves only a caller whose session token is
\* valid and embeds role admin
delete_user_admin_only(id, smtp_ok, headers) ==
    /\ served < MaxRequests
    /\ served' = served + 1
    /\ UNCHANGED <<held, handlers>>
    /\ req' = [op |-> "delete_user", id |-> id, headers |-> headers]
    /\ UNCHANGED nextOid
    /\ LET i == find_one(users_col, [_id |-> ObjectId(id)])
           session == ValidateSession(headers)
       IN  IF session.status # 200
           THEN /\ UNCHANGED users_col
                /\ sent' = << >>
                /\ resp' = session
           ELSE IF session.body.user.role # "admin"
           THEN /\ UNCHANGED users_col
                /\ sent' = << >>
                /\ resp' = Message(403, "Forbidden")
           ELSE IF i # 0
           THEN IF smtp_ok
                THEN /\ sent' = << Mail(users_col[i].email, "deleted",
                                        OidStr(users_col[i]["_id"]), None) >>
                     /\ users_col' = find_one_and_delete(users_col, [_id |-> ObjectId(id)])
                     /\ resp' = Message(200, "User has been deleted")
                ELSE /\ sent' = << >>
                     /\ UNCHANGED users_col
                     /\ resp' = Unhandled("SMTPException")
           ELSE /\ UNCHANGED users_col
                /\ sent' = << >>
                /\ resp' = Message(400, "User not found")

delete_user(id, smtp_ok, headers) ==
    /\ served < MaxRequests
    /\ served' = served + 1
    /\ UNCHANGED <<held, handlers>>
    /\ req' = [op |-> "delete_user", id |-> id, headers |-> headers]
    /\ UNCHANGED nextOid
    /\ LET i == find_one(users_col, [_id |-> ObjectId(id)])
       IN  IF i # 0
           THEN IF smtp_ok
                THEN /\ sent' = << Mail(users_col[i].email, "deleted",
                                        OidStr(users_col[i]["_id"]), None) >>
                     /\ users_col' = find_one_and_delete(users_col, [_id |-> ObjectId(id)])
                     /\ resp' = Message(200, "User has been deleted")
                ELSE /\ sent' = << >>
                     /\ UNCHANGED users_col
                     /\ resp' = Unhandled("SMTPException")
           ELSE /\ UNCHANGED users_col
                /\ sent' = << >>
                /\ resp' = Message(400, "User not found")

Next ==
    \/ \E d \in SignupData, s \in Salts, t \in RandomStrings, ok \in BOOLEAN :
          signup(d, s, t, ok)
    \/ \E e \in Emails, p \in Passwords : login(e, p)
    \/ \E id \in IdStrings, t \in RandomStrings : verify(id, t)
    \/ \E e \in Emails, t \in RandomStrings, ok \in BOOLEAN : forgot_password(e, t, ok)
    \/ \E id \in IdStrings, p \in Passwords, t \in SuppliedTokens, s \in Salts :
          reset_password(id, p, t, s)
    \/ \E id \in IdStrings, d \in EditPatches : edit_account(id, d)
    \/ \E id \in IdStrings, o \in Passwords, n \in Passwords, s \in Salts :
          edit_password(id, o, n, s)
    \/ \E id \in IdStrings : delete_account(id)
    \/ \E id \in IdStrings, t \in RandomStrings, ok \in BOOLEAN :
          admin_reset_password(id, t, ok, NoHeaders)
    \/ \E id \in IdStrings, ok \in BOOLEAN : delete_user(id, ok, NoHeaders)

Spec == Init /\ [][Next]_vars

\* The store as one successful signup leaves it; requests are counted from there.
InitSignedUp ==
    \E d \in SignupData, s \in Salts, t \in RandomStrings :
        LET doc == Merge(created_user(d, s, t), [_id |-> 1])
        IN  /\ users_col = << doc >>
            /\ nextOid = 2
            /\ req = [op |-> "signup", data |-> d]
            /\ resp = UserAndToken(201, WithStrId(doc))
            /\ sent = << Mail(d.email, "verify", OidStr(1), t) >>
            /\ served = 0
            /\ held = NoSession
            /\ handlers = [w \in Workers |-> Idle]

SpecSignedUp == InitSignedUp /\ [][Next]_vars

\* The seeded store as a forgot_password for "julien@admin.com" that drew "T1"
\* leaves it; requests are counted from there.
InitForgot ==
    /\ users_col = find_one_and_update(real_users, [email |-> "julien@admin.com"],
                                       [resetToken |-> "T1"])
    /\ nextOid = 3
    /\ req = [op |-> "forgot_password", email |-> "julien@admin.com"]
    /\ resp = Message(200, "Email has been sent!")
    /\ sent = << Mail("julien@admin.com", "reset", OidStr(1), "T1") >>
    /\ served = 0
    /\ held = NoSession
    /\ handlers = [w \in Workers |-> Idle]

SpecForgot == InitForgot /\ [][Next]_vars

\* ---- auth.logged_in -------------------------------------------------------
\* variant of logged_in that answers with the stored document of the token's
\* user and refuses the token of a user who is gone
logged_in_fresh(headers) ==
    /\ served < MaxRequests
    /\ served' = served + 1
    /\ req' = [op |-> "logged_in", headers |-> headers]
    /\ UNCHANGED <<users_col, nextOid, held, handlers>>
    /\ sent' = << >>
    /\ LET r == ValidateSession(headers)
       IN  IF r.status # 200
           THEN resp' = r
           ELSE LET i == find_one(users_col, [_id |-> ObjectId(r.body.user["_id"])])
                IN  IF i = 0
                    THEN resp' = Message(401, "Invalid token")
                    ELSE resp' = [status |-> 200, body |-> [user |-> WithStrId(users_col[i])]]

logged_in(headers) ==
    /\ served < MaxRequests
    /\ served' = served + 1
    /\ req' = [op |-> "logged_in", headers |-> headers]
    /\ UNCHANGED <<users_col, nextOid, held, handlers>>
    /\ sent' = << >>
    /\ resp' = ValidateSession(headers)

\* the client keeps the user and the session token of the response it got
keep_session ==
    /\ "authToken" \in DOMAIN resp.body
    /\ held' = [by |-> req.op, user |-> resp.body.user, authToken |-> resp.body.authToken]
    /\ held' # held
    /\ UNCHANGED <<users_col, nextOid, req, resp, sent, served, handlers>>

\* tokens a caller may present: the one it holds, the same snapshot (or one
\* with role admin) signed with another secret or with no signature, and text
ForgedTokens ==
    IF "authToken" \in DOMAIN held
    THEN { [held.authToken EXCEPT !.key = "ATTACKER_SECRET"],
           [held.authToken EXCEPT !.key = "ATTACKER_SECRET",
                                  !.payload.user.role = "admin"],
           [held.authToken EXCEPT !.key = "", !.alg = "none"] }
    ELSE { jwt_encode(WithStrId(real_users[1]), "ATTACKER_SECRET") }

PresentedHeaders ==
    { NoHeaders, WithAuthorization(<< >>),
      WithAuthorization(<< Text("Bearer") >>),
      WithAuthorization(<< Text("Bearer"), SP >>),
      WithAuthorization(Bearer(Text("garbage"))) }
    \cup { WithAuthorization(Bearer(t)) : t \in ForgedTokens }
    \cup ( IF "authToken" \in DOMAIN held
           THEN { WithAuthorization(Bearer(held.authToken)),
                  WithAuthorization(Bearer(held.authToken) \o << SP, Text("extra") >>),
                  WithAuthorization(<< Text("Bearer"), SP, SP, held.authToken >>),
                  WithAuthorization(<< Text("Basic"), SP, held.authToken >>),
                  WithAuthorization(<< held.authToken >>) }
           ELSE {} )

\* what the caller of an admin route may send: no Authorization header, or
\* the session token it holds, of a user with role user or with role admin
CallerHeaders ==
    {NoHeaders} \cup ( IF "authToken" \in DOMAIN held
                       THEN { WithAuthorization(Bearer(held.authToken)) }
                       ELSE {} )

\* The session scenario: the requests are about the first user of the store,
\* mail is delivered, and the client may keep and present what it was given.
SessionUser == OidStr(1)

NextSession ==
    \/ \E d \in SignupData, s \in Salts : signup(d, s, "T1", TRUE)
    \/ \E e \in Emails, p \in Passwords : login(e, p)
    \/ verify(SessionUser, "T1")
    \/ \E e \in Emails : forgot_password(e, "T2", TRUE)
    \/ \E t \in {"T2", None}, s \in Salts : reset_password(SessionUser, "NewPass1", t, s)
    \/ \E d \in EditPatches : edit_account(SessionUser, d)
    \/ \E o \in Passwords, s \in Salts : edit_password(SessionUser, o, "NewPass1", s)
    \/ delete_account(SessionUser)
    \/ \E h \in CallerHeaders : admin_reset_password(SessionUser, "T2", TRUE, h)
    \/ \E h \in CallerHeaders : delete_user(SessionUser, TRUE, h)
    \/ keep_session
    \/ \E h \in PresentedHeaders : logged_in(h)

SpecSession == Init /\ [][NextSession]_vars

\* ---- the handlers, one store call at a time -------------------------------
\* A worker runs a handler statement by statement; between two of its calls
\* to the collection or to send_mail the other worker may run.  handlers[w]
\* holds the handler's arguments and locals, the notification requests it
\* made and, once it returned, its response.

Accepting(w) == handlers[w].pc \in {"idle", "done"} /\ served < MaxRequests
At(w, op, pc) == handlers[w].op = op /\ handlers[w].pc = pc
Goto(w, h) == handlers' = [handlers EXCEPT ![w] = h]
Return(h, response) == Merge(h, [pc |-> "done", resp |-> response])
\* a call of send_mail and whether it returned or raised SMTPException
Notification(mail, smtp_ok) == [mail |-> mail, ok |-> smtp_ok]

\* auth.signup: find_one, insert_one, send_mail

signup_find_one(w, data) ==
    /\ Accepting(w)
    /\ served' = served + 1
    /\ LET h == [op |-> "signup", pc |-> "insert_one", data |-> data, mails |-> << >>]
       IN  IF find_one(users_col, [email |-> data.email]) # 0
           THEN Goto(w, Return(h, Message(400, "This email is already taken")))
           ELSE Goto(w, h)
    /\ UNCHANGED <<users_col, nextOid, req, resp, sent, held>>

signup_insert_one(w, salt, verify_token) ==
    /\ At(w, "signup", "insert_one")
    /\ nextOid <= MaxUsers
    /\ LET doc == Merge(created_user(handlers[w].data, salt, verify_token),
                        [_id |-> nextOid])
       IN  /\ users_col' = Append(users_col, doc)
           /\ nextOid' = nextOid + 1
           /\ Goto(w, Merge(handlers[w], [pc |-> "send_mail",
                                          created_user |-> WithStrId(doc)]))
    /\ UNCHANGED <<req, resp, sent, served, held>>

\* variant of signup_send_mail that deletes the created document when the
\* mail could not be sent
signup_send_mail_rollback(w, smtp_ok) ==
    /\ At(w, "signup", "send_mail")
    /\ LET user == handlers[w].created_user
           h == Merge(handlers[w],
                      [mails |-> << Notification(Mail(handlers[w].data.email, "verify",
                                                      user["_id"], user.verifyToken),
                                                 smtp_ok) >>])
       IN  /\ Goto(w, Return(h, IF smtp_ok THEN UserAndToken(201, user)
                                           ELSE Unhandled("SMTPException")))
           /\ users_col' = IF smtp_ok THEN users_col
                           ELSE find_one_and_delete(users_col,
                                                    [_id |-> ObjectId(user["_id"])])
    /\ UNCHANGED <<nextOid, req, resp, sent, served, held>>

signup_send_mail(w, smtp_ok) ==
    /\ At(w, "signup", "send_mail")
    /\ LET user == handlers[w].created_user
           h == Merge(handlers[w],
                      [mails |-> << Notification(Mail(handlers[w].data.email, "verify",
                                                      user["_id"], user.verifyToken),
                                                 smtp_ok) >>])
       IN  Goto(w, Return(h, IF smtp_ok THEN UserAndToken(201, user)
                                        ELSE Unhandled("SMTPException")))
    /\ UNCHANGED <<users_col, nextOid, req, resp, sent, served, held>>

\* admin.delete_user: find_one, send_mail, find_one_and_delete

delete_user_find_one(w, id) ==
    /\ Accepting(w)
    /\ served' = served + 1
    /\ LET i == find_one(users_col, [_id |-> ObjectId(id)])
           h == [op |-> "delete_user", pc |-> "send_mail", id |-> id, mails |-> << >>]
       IN  IF i # 0
           THEN Goto(w, Merge(h, [found_user |-> users_col[i]]))
           ELSE Goto(w, Return(h, Message(400, "User not found")))
    /\ UNCHANGED <<users_col, nextOid, req, resp, sent, held>>

\* variant of delete_user_send_mail that goes on to the delete when the mail
\* could not be sent
delete_user_send_mail_ignoring_failure(w, smtp_ok) ==
    /\ At(w, "delete_user", "send_mail")
    /\ Goto(w, Merge(handlers[w],
                     [pc |-> "find_one_and_delete",
                      mails |-> << Notification(Mail(handlers[w].found_user.email, "deleted",
                                                     handlers[w].id, None),
                                                smtp_ok) >>]))
    /\ UNCHANGED <<users_col, nextOid, req, resp, sent, served, held>>

delete_user_send_mail(w, smtp_ok) ==
    /\ At(w, "delete_user", "send_mail")
    /\ LET h == Merge(handlers[w],
                      [mails |-> << Notification(Mail(handlers[w].found_user.email, "deleted",
                                                      handlers[w].id, None),
                                                 smtp_ok) >>])
       IN  IF smtp_ok
           THEN Goto(w, Merge(h, [pc |-> "find_one_and_delete"]))
           ELSE Goto(w, Return(h, Unhandled("SMTPException")))
    /\ UNCHANGED <<users_col, nextOid, req, resp, sent, served, held>>

delete_user_find_one_and_delete(w) ==
    /\ At(w, "delete_user", "find_one_and_delete")
    /\ users_col' = find_one_and_delete(users_col, [_id |-> ObjectId(handlers[w].id)])
    /\ Goto(w, Return(handlers[w], Message(200, "User has been deleted")))
    /\ UNCHANGED <<nextOid, req, resp, sent, served, held>>

\* users.delete_account: find_one, find_one_and_delete

delete_account_find_one(w, id) ==
    /\ Accepting(w)
    /\ served' = served + 1
    /\ LET h == [op |-> "delete_account", pc |-> "find_one_and_delete", id |-> id,
                 mails |-> << >>]
       IN  IF find_one(users_col, [_id |-> ObjectId(id)]) # 0
           THEN Goto(w, h)
           ELSE Goto(w, Return(h, Message(400, "User not found")))
    /\ UNCHANGED <<users_col, nextOid, req, resp, sent, held>>

delete_account_find_one_and_delete(w) ==
    /\ At(w, "delete_account", "find_one_and_delete")
    /\ users_col' = find_one_and_delete(users_col, [_id |-> ObjectId(handlers[w].id)])
    /\ Goto(w, Return(handlers[w], Message(200, "Account has been deleted")))
    /\ UNCHANGED <<nextOid, req, resp, sent, served, held>>

\* find_one_and_update(..., return_document=True) returned None and the
\* handler subscripts it
NoneNotSubscriptable == Unhandled("TypeError: 'NoneType' object is not subscriptable")

\* users.edit_account: find_one, find_one_and_update

edit_account_find_one(w, id, data) ==
    /\ Accepting(w)
    /\ served' = served + 1
    /\ LET h == [op |-> "edit_account", pc |-> "find_one_and_update", id |-> id,
                 data |-> data, mails |-> << >>]
       IN  IF find_one(users_col, [_id |-> ObjectId(id)]) # 0
           THEN Goto(w, h)
           ELSE Goto(w, Return(h, Message(400, "User not found")))
    /\ UNCHANGED <<users_col, nextOid, req, resp, sent, held>>

edit_account_find_one_and_update(w) ==
    /\ At(w, "edit_account", "find_one_and_update")
    /\ LET query == [_id |-> ObjectId(handlers[w].id)]
           i == find_one(users_col, query)
       IN  IF i = 0
           THEN /\ UNCHANGED users_col
                /\ Goto(w, Return(handlers[w], NoneNotSubscriptable))
           ELSE LET updated_user == WithStrId(Merge(users_col[i], handlers[w].data))
                IN  /\ users_col' = find_one_and_update(users_col, query, handlers[w].data)
                    /\ Goto(w, Return(handlers[w],
                                      IF JsonSerializable(updated_user)
                                      THEN UserAndToken(201, updated_user)
                                      ELSE Unhandled("TypeError")))
    /\ UNCHANGED <<nextOid, req, resp, sent, served, held>>

\* users.edit_password: find_one and checkpw, find_one_and_update

edit_password_find_one(w, id, old_password, new_password) ==
    /\ Accepting(w)
    /\ served' = served + 1
    /\ LET i == find_one(users_col, [_id |-> ObjectId(id)])
           h == [op |-> "edit_password", pc |-> "find_one_and_update", id |-> id,
                 newPassword |-> new_password, mails |-> << >>]
       IN  IF i = 0
           THEN Goto(w, Return(h, Message(400, "User not found")))
           ELSE IF ~WellFormedHash(users_col[i].password)
           THEN Goto(w, Return(h, Unhandled("ValueError")))
           ELSE IF checkpw(old_password, users_col[i].password)
           THEN Goto(w, h)
           ELSE Goto(w, Return(h, Message(400, "Old password does not match")))
    /\ UNCHANGED <<users_col, nextOid, req, resp, sent, held>>

edit_password_find_one_and_update(w, salt) ==
    /\ At(w, "edit_password", "find_one_and_update")
    /\ LET query == [_id |-> ObjectId(handlers[w].id)]
           patch == [password |-> hashpw(handlers[w].newPassword, salt)]
           i == find_one(users_col, query)
       IN  IF i = 0
           THEN /\ UNCHANGED users_col
                /\ Goto(w, Return(handlers[w], NoneNotSubscriptable))
           ELSE LET updated_user == WithStrId(Merge(users_col[i], patch))
                IN  /\ users_col' = find_one_and_update(users_col, query, patch)
                    /\ Goto(w, Return(handlers[w],
                                      IF JsonSerializable(updated_user)
                                      THEN UserAndToken(201, updated_user)
                                      ELSE Unhandled("TypeError")))
    /\ UNCHANGED <<nextOid, req, resp, sent, served, held>>

\* auth.verify: find_one, find_one_and_update

verify_find_one(w, id, token) ==
    /\ Accepting(w)
    /\ served' = served + 1
    /\ LET i == find_one(users_col, [_id |-> ObjectId(id), verifyToken |-> token])
           h == [op |-> "verify", pc |-> "find_one_and_update", id |-> id, mails |-> << >>]
       IN  IF i # 0
           THEN Goto(w, Merge(h, [user |-> users_col[i]]))
           ELSE Goto(w, Return(h, Message(400, "User not found.")))
    /\ UNCHANGED <<users_col, nextOid, req, resp, sent, held>>

verify_find_one_and_update(w) ==
    /\ At(w, "verify", "find_one_and_update")
    /\ users_col' = find_one_and_update(users_col, [_id |-> ObjectId(handlers[w].id)],
                                        [verified |-> TRUE])
    /\ LET user == WithStrId(handlers[w].user)
       IN  Goto(w, Return(handlers[w], IF JsonSerializable(user)
                                       THEN UserAndToken(200, user)
                                       ELSE Unhandled("TypeError")))
    /\ UNCHANGED <<nextOid, req, resp, sent, served, held>>

\* auth.reset_password: find_one and the token test, find_one_and_update

reset_password_find_one(w, id, password, reset_token) ==
    /\ Accepting(w)
    /\ served' = served + 1
    /\ LET i == find_one(users_col, [_id |-> ObjectId(id)])
           h == [op |-> "reset_password", pc |-> "find_one_and_update", id |-> id,
                 password |-> password, mails |-> << >>]
       IN  IF i = 0
           THEN Goto(w, Return(h, Message(400, "User not found")))
           ELSE IF Get(users_col[i], "resetToken") # reset_token
           THEN Goto(w, Return(h, Message(400, "Reset token does not match")))
           ELSE Goto(w, h)
    /\ UNCHANGED <<users_col, nextOid, req, resp, sent, held>>

reset_password_find_one_and_update(w, salt) ==
    /\ At(w, "reset_password", "find_one_and_update")
    /\ users_col' = find_one_and_update(users_col, [_id |-> ObjectId(handlers[w].id)],
                                        [password |-> hashpw(handlers[w].password, salt)])
    /\ Goto(w, Return(handlers[w], Message(200, "The new password has been saved!")))
    /\ UNCHANGED <<nextOid, req, resp, sent, served, held>>

\* admin.reset_password: find_one, find_one_and_update, send_mail

admin_reset_password_find_one(w, id) ==
    /\ Accepting(w)
    /\ served' = served + 1
    /\ LET i == find_one(users_col, [_id |-> ObjectId(id)])
           h == [op |-> "admin_reset_password", pc |-> "find_one_and_update", id |-> id,
                 mails |-> << >>]
       IN  IF i # 0
           THEN Goto(w, Merge(h, [found_user |-> users_col[i]]))
           ELSE Goto(w, Return(h, Message(400, "User not found")))
    /\ UNCHANGED <<users_col, nextOid, req, resp, sent, held>>

admin_reset_password_find_one_and_update(w, reset_token) ==
    /\ At(w, "admin_reset_password", "find_one_and_update")
    /\ users_col' = find_one_and_update(users_col, [_id |-> ObjectId(handlers[w].id)],
                                        [resetToken |-> reset_token])
    /\ Goto(w, Merge(handlers[w], [pc |-> "send_mail", reset_token |-> reset_token]))
    /\ UNCHANGED <<nextOid, req, resp, sent, served, held>>

admin_reset_password_send_mail(w, smtp_ok) ==
    /\ At(w, "admin_reset_password", "send_mail")
    /\ LET h == Merge(handlers[w],
                      [mails |-> << Notification(Mail(handlers[w].found_user.email, "reset",
                                                      handlers[w].id,
                                                      handlers[w].reset_token),
                                                 smtp_ok) >>])
       IN  Goto(w, Return(h, IF smtp_ok
                             THEN Message(200, "An email was just sent to reset their password!")
                             ELSE Unhandled("SMTPException")))
    /\ UNCHANGED <<users_col, nextOid, req, resp, sent, served, held>>

\* request bodies used when the handlers run statement by statement
StepSignupData == { d \in SignupData : d.password = "Password42" /\ "role" \notin DOMAIN d }
StepPatches == { [fullName |-> "Eve"], [role |-> "admin"] }

\* one statement of worker w; smtp holds the outcomes send_mail may have,
\* ids the document ids the requests name
Step(w, smtp, ids) ==
    \/ \E d \in StepSignupData : signup_find_one(w, d)
    \/ \E s \in Salts : signup_insert_one(w, s, "T1")
    \/ \E ok \in smtp : signup_send_mail(w, ok)
    \/ \E id \in ids : delete_user_find_one(w, id)
    \/ \E ok \in smtp : delete_user_send_mail(w, ok)
    \/ delete_user_find_one_and_delete(w)
    \/ \E id \in ids : delete_account_find_one(w, id)
    \/ delete_account_find_one_and_delete(w)
    \/ \E id \in ids, d \in StepPatches : edit_account_find_one(w, id, d)
    \/ edit_account_find_one_and_update(w)
    \/ \E id \in ids, o \in Passwords : edit_password_find_one(w, id, o, "NewPass1")
    \/ \E s \in Salts : edit_password_find_one_and_update(w, s)
    \/ \E id \in ids : verify_find_one(w, id, "T1")
    \/ verify_find_one_and_update(w)
    \/ \E id \in ids, t \in {"T2", None} : reset_password_find_one(w, id, "NewPass1", t)
    \/ \E s \in Salts : reset_password_find_one_and_update(w, s)
    \/ \E id \in ids : admin_reset_password_find_one(w, id)
    \/ admin_reset_password_find_one_and_update(w, "T2")
    \/ \E ok \in smtp : admin_reset_password_send_mail(w, ok)

\* one worker: the statements of a handler in their order, mail may fail
NextSteps == Step(1, BOOLEAN, IdStrings)
SpecSteps == Init /\ [][NextSteps]_vars

\* two workers on the store a signup left; mail is delivered and the requests
\* name the document of that signup
NextRace == \E w \in Workers : Step(w, {TRUE}, {OidStr(1)})
SpecRace == InitSignedUp /\ [][NextRace]_vars

\* ---- properties -----------------------------------------------------------

\* indices of the documents of col whose _id renders as id
WithId(col, id) == { i \in 1..Len(col) : OidStr(col[i]["_id"]) = id }
EmailUsed(col, email) == \E i \in 1..Len(col) : col[i].email = email
TokenMismatch == Message(400, "Reset token does not match")

\* C1: a signup whose email equals the email of a stored document is answered
\* "This email is already taken" (400) whatever fullName, password and extra
\* keys it carries; it inserts nothing, changes no document and sends no mail.
C1_SignupTakenEmail ==
    [][ (req'.op = "signup" /\ EmailUsed(users_col, req'.data.email))
        => /\ resp' = Message(400, "This email is already taken")
           /\ users_col' = users_col
           /\ nextOid' = nextOid
           /\ sent' = << >> ]_vars

C1_Witness ==
    /\ req.op = "signup"
    /\ resp = Message(400, "This email is already taken")
    /\ EmailUsed(users_col, req.data.email)
    /\ "role" \in DOMAIN req.data

\* C2: a login that follows a successful signup and carries the same email and
\* password succeeds, and the snapshot in its session token has that email.
C2_LoginAfterSignup ==
    [][ ( /\ req.op = "signup" /\ resp.status = 201
          /\ req'.op = "login"
          /\ req'.email = req.data.email
          /\ req'.password = req.data.password )
        => /\ resp'.status = 201
           /\ "authToken" \in DOMAIN resp'.body
           /\ resp'.body.authToken.payload.user.email = req.data.email ]_vars

\* C3: the password of every stored document is an output of the password
\* hasher (a well-formed bcrypt hash), never a caller-supplied text.
C3_PasswordsHashed ==
    \A i \in 1..Len(users_col) : WellFormedHash(users_col[i].password)

\* C4: no two stored documents have the same email.
C4_EmailUnique ==
    \A i, j \in 1..Len(users_col) :
        i # j => users_col[i].email # users_col[j].email

\* C5: a document is inserted with verified = false, and verified changes only
\* from false to true and only in a verify request for that document that
\* carries its verifyToken.
C5_VerifiedOnlyByVerify ==
    [][ \A j \in 1..Len(users_col') :
          LET new == users_col'[j]
              old == WithId(users_col, OidStr(new["_id"]))
          IN  /\ old = {} => new.verified = FALSE
              /\ \A i \in old :
                    users_col[i].verified # new.verified
                    => /\ users_col[i].verified = FALSE
                       /\ req'.op = "verify"
                       /\ req'.id = OidStr(new["_id"])
                       /\ req'.token = users_col[i].verifyToken ]_vars

\* C6: an edit_account request leaves the role of every document as it was,
\* whatever its patch.
C6_EditKeepsRole ==
    [][ req'.op = "edit_account"
        => \A j \in 1..Len(users_col') :
              \A i \in WithId(users_col, OidStr(users_col'[j]["_id"])) :
                  users_col'[j].role = users_col[i].role ]_vars

\* C7: the document a signup inserts has role "user" and verified = false, and
\* so has the snapshot it returns, whatever role or verified key the payload
\* carries.
C7_SignupDefaults ==
    (req.op = "signup" /\ resp.status # 400)
    => LET doc == users_col[Len(users_col)]
       IN  /\ doc.role = "user"
           /\ doc.verified = FALSE
           /\ resp.status = 201
              => /\ resp.body.user.role = "user"
                 /\ resp.body.user.verified = FALSE
                 /\ resp.body.user["_id"] = OidStr(doc["_id"])

C7_Witness ==
    /\ req.op = "signup"
    /\ resp.status = 201
    /\ "role" \in DOMAIN req.data
    /\ req.data.role = "admin"
    /\ req.data.verified = TRUE
    /\ users_col[Len(users_col)].email = req.data.email

\* C8: after a successful verify the stored document has verified = true, and
\* so have the snapshot returned and the snapshot inside the session token.
C8_VerifyReturnsUpdated ==
    (req.op = "verify" /\ resp.status = 200)
    => /\ \A i \in WithId(users_col, req.id) : users_col[i].verified = TRUE
       /\ resp.body.user.verified = TRUE
       /\ resp.body.authToken.payload.user.verified = TRUE

\* C9: reset_password overwrites the password only when the document has a
\* resetToken and it equals the supplied one; in every other case on a stored
\* document it answers "Reset token does not match" and changes nothing.
C9_ResetNeedsStoredToken ==
    [][ req'.op = "reset_password"
        => \A i \in WithId(users_col, req'.id) :
              ("resetToken" \in DOMAIN users_col[i]
                  /\ users_col[i].resetToken = req'.resetToken)
              \/ (resp' = TokenMismatch /\ users_col' = users_col) ]_vars

\* C10: after a reset_password that succeeded with the stored resetToken, a
\* login with the email of that document succeeds with the new password and is
\* answered "Wrong password" with any other.
C10_LoginAfterReset ==
    [][ ( /\ req.op = "reset_password" /\ resp.status = 200
          /\ req'.op = "login" )
        => \A i \in WithId(users_col, req.id) :
              ( /\ "resetToken" \in DOMAIN users_col[i]
                /\ users_col[i].resetToken = req.resetToken
                /\ req'.email = users_col[i].email )
              => IF req'.password = req.password
                 THEN resp'.status = 201
                 ELSE resp' = Message(400, "Wrong password") ]_vars

\* C11: a reset_password that repeats the id and the resetToken of the
\* successful reset_password just before it is answered "Reset token does not
\* match" and changes nothing.
C11_ResetTokenSingleUse ==
    [][ ( /\ req.op = "reset_password" /\ resp.status = 200
          /\ req.resetToken \in RandomStrings
          /\ req'.op = "reset_password"
          /\ req'.id = req.id
          /\ req'.resetToken = req.resetToken )
        => (resp' = TokenMismatch /\ users_col' = users_col) ]_vars

\* C12: a verify that repeats the id and the token of the successful verify
\* just before it is answered "User not found." and returns no session token.
C12_VerifyTokenSingleUse ==
    [][ ( /\ req.op = "verify" /\ resp.status = 200
          /\ req'.op = "verify"
          /\ req'.id = req.id
          /\ req'.token = req.token )
        => resp' = Message(400, "User not found.") ]_vars

\* C14: an edit_password whose oldPassword does not verify against the stored
\* password of the document is answered "Old password does not match", leaves
\* the collection as it was and returns no session token.
C14_WrongOldPassword ==
    [][ req'.op = "edit_password"
        => \A i \in WithId(users_col, req'.id) :
              ~(WellFormedHash(users_col[i].password)
                  /\ checkpw(req'.oldPassword, users_col[i].password))
              => /\ resp' = Message(400, "Old password does not match")
                 /\ users_col' = users_col ]_vars

\* C15: a login request, whatever its outcome, leaves the collection as it was,
\* inserts nothing and sends no mail.
C15_LoginReadsOnly ==
    [][ req'.op = "login"
        => /\ users_col' = users_col
           /\ nextOid' = nextOid
           /\ sent' = << >> ]_vars

C15_Witness ==
    /\ req.op = "login"
    /\ resp.status = 201
    /\ EmailUsed(users_col, req.email)

\* C20: when the stored password of the document is not a well-formed hash,
\* login is answered "Wrong password" and edit_password "Old password does not
\* match"; neither ends in an unhandled exception.
C20_VerifyFailsClosed ==
    [][ /\ req'.op = "login"
           => LET i == find_one(users_col, [email |-> req'.email])
              IN  (i # 0 /\ ~WellFormedHash(users_col[i].password))
                  => resp' = Message(400, "Wrong password")
        /\ req'.op = "edit_password"
           => \A i \in WithId(users_col, req'.id) :
                 ~WellFormedHash(users_col[i].password)
                 => resp' = Message(400, "Old password does not match") ]_vars

\* C13: a forgot_password or admin reset leaves on the document exactly the
\* token it mails, whatever token was there before, and a reset_password whose
\* token differs from the stored one is answered "Reset token does not match"
\* and changes nothing: of two tokens issued in turn only the second resets.
C13_LaterTokenReplaces ==
    [][ /\ (req'.op \in {"forgot_password", "admin_reset_password"} /\ sent' # << >>)
           => \A i \in WithId(users_col', sent'[1].id) :
                 /\ "resetToken" \in DOMAIN users_col'[i]
                 /\ users_col'[i].resetToken = sent'[1].token
        /\ req'.op = "reset_password"
           => \A i \in WithId(users_col, req'.id) :
                 Get(users_col[i], "resetToken") # req'.resetToken
                 => (resp' = TokenMismatch /\ users_col' = users_col) ]_vars

\* "T1" was issued for document 1 at the start, "T2" after it; "T1" is refused
C13_Witness ==
    /\ req.op = "reset_password"
    /\ req.id = OidStr(1)
    /\ req.resetToken = "T1"
    /\ resp = TokenMismatch
    /\ \E i \in WithId(users_col, req.id) : Get(users_col[i], "resetToken") = "T2"

\* the header "Bearer <token>": two parts, "Bearer" and one non-empty token
WellFormedBearer(value) ==
    /\ Len(Split(value)) = 2
    /\ Split(value)[1] = << Text("Bearer") >>
    /\ Split(value)[2] # << >>

\* C16: ValidateSession answers MissingAuthorization when there is no
\* Authorization header, Malformed for every header that is not of the form
\* "Bearer <token>", InvalidToken when the token does not decode, and the
\* embedded user snapshot otherwise.  Violated: "Bearer <token> extra" is
\* not of the form and is answered 200 with the snapshot of the second part,
\* and "Bearer " is answered "Invalid token".
C16_SessionOutcomes ==
    req.op = "logged_in" =>
        IF "authorization" \notin DOMAIN req.headers \/ req.headers.authorization = << >>
        THEN resp = Message(401, "Authorization header missing")
        ELSE IF ~WellFormedBearer(req.headers.authorization)
        THEN resp = Message(401, "Invalid authorization header")
        ELSE IF jwt_decode(Split(req.headers.authorization)[2], TOKEN_SECRET) = InvalidTokenError
        THEN resp = Message(401, "Invalid token")
        ELSE resp = [status |-> 200,
                     body |-> [user |-> jwt_decode(Split(req.headers.authorization)[2],
                                                   TOKEN_SECRET).user]]

\* the request presents exactly the token the client holds
PresentsHeldToken ==
    /\ req.op = "logged_in"
    /\ "authToken" \in DOMAIN held
    /\ req.headers = WithAuthorization(Bearer(held.authToken))

\* C17: the token returned by signup, login, verify, edit_account or
\* edit_password, presented as "Bearer <token>", validates to exactly the
\* user that was returned with it.
C17_TokenRoundTrip ==
    PresentsHeldToken => resp = [status |-> 200, body |-> [user |-> held.user]]

C17_Witness ==
    /\ PresentsHeldToken
    /\ held.by = "edit_password"
    /\ resp = [status |-> 200, body |-> [user |-> held.user]]

\* C18: a token signed with a key other than TOKEN_SECRET is answered
\* InvalidToken, whatever snapshot it embeds.
C18_ForgedTokenRejected ==
    ( /\ req.op = "logged_in"
      /\ "authorization" \in DOMAIN req.headers
      /\ Len(req.headers.authorization) = 3
      /\ req.headers.authorization[1] = Text("Bearer")
      /\ req.headers.authorization[2] = SP
      /\ "key" \in DOMAIN req.headers.authorization[3]
      /\ req.headers.authorization[3].key # TOKEN_SECRET )
    => resp = Message(401, "Invalid token")

C18_Witness ==
    /\ req.op = "logged_in"
    /\ "authToken" \in DOMAIN held
    /\ req.headers = WithAuthorization(Bearer(
           [held.authToken EXCEPT !.key = "ATTACKER_SECRET",
                                  !.payload.user.role = "admin"]))
    /\ resp = Message(401, "Invalid token")

\* C19: validation never consults the store: a held token stays valid and
\* yields the snapshot embedded when it was minted, also after the user was
\* deleted or changed.
C19_ValidationIgnoresStore ==
    PresentsHeldToken =>
        /\ resp.status = 200
        /\ resp.body.user = held.authToken.payload.user

C19_Witness ==
    /\ PresentsHeldToken
    /\ WithId(users_col, held.authToken.payload.user["_id"]) = {}
    /\ resp.status = 200
    /\ resp.body.user = held.authToken.payload.user

\* the answer of every handler that found no document
UserNotFound == { Message(400, "User not found"), Message(400, "User not found.") }

\* C21: a request that is answered "User not found" leaves the whole
\* collection unchanged, sends no mail and returns no session token.
C21_NotFoundChangesNothing ==
    [][ (served' = served + 1 /\ resp' \in UserNotFound)
        => /\ users_col' = users_col
           /\ sent' = << >>
           /\ "authToken" \notin DOMAIN resp'.body ]_vars

C21_Witness ==
    /\ req.op = "verify"
    /\ resp \in UserNotFound
    /\ WithId(users_col, req.id) # {}
    /\ \E i \in WithId(users_col, req.id) : ~users_col[i].verified

\* the documents of col as the handlers return them
Snapshots(col) == { WithStrId(col[i]) : i \in 1..Len(col) }

\* C22: a signup that passed the email check makes one insert and then one
\* notification request that carries the id and the verifyToken of the
\* inserted document; the notification step changes no document, so that
\* after a failed notification the document is still stored as inserted.
C22_SignupInsertThenNotify ==
    [][ \A w \in Workers :
          /\ (At(w, "signup", "insert_one") /\ handlers'[w] # handlers[w])
             => /\ Len(users_col') = Len(users_col) + 1
                /\ SubSeq(users_col', 1, Len(users_col)) = users_col
                /\ WithStrId(users_col'[Len(users_col')]) = handlers'[w].created_user
                /\ handlers'[w].pc = "send_mail"
                /\ handlers'[w].mails = << >>
          /\ (At(w, "signup", "send_mail") /\ handlers'[w] # handlers[w])
             => /\ users_col' = users_col
                /\ handlers[w].created_user \in Snapshots(users_col')
                /\ handlers'[w].pc = "done"
                /\ Len(handlers'[w].mails) = 1
                /\ handlers'[w].mails[1].mail =
                      Mail(handlers[w].data.email, "verify",
                           handlers[w].created_user["_id"],
                           handlers[w].created_user.verifyToken)
                /\ (handlers'[w].resp.status = 201) = handlers'[w].mails[1].ok
    ]_vars

C22_Witness ==
    /\ At(1, "signup", "done")
    /\ handlers[1].resp = Unhandled("SMTPException")
    /\ handlers[1].mails # << >>
    /\ ~handlers[1].mails[1].ok
    /\ handlers[1].created_user \in Snapshots(users_col)

\* worker w runs a signup that has inserted its document
Inserted(w) == handlers[w].op = "signup" /\ "created_user" \in DOMAIN handlers[w]

\* C23: of two signups for the same email that run at the same time at most
\* one inserts a document and the other is answered "This email is already
\* taken"; the collection never holds the documents of both.  Violated: both
\* make their find_one before either makes its insert_one, and the collection
\* has no unique index on email.
C23_ConcurrentSignupOneWins ==
    \A w1, w2 \in Workers :
        ( /\ w1 # w2
          /\ Inserted(w1) /\ Inserted(w2)
          /\ handlers[w1].data.email = handlers[w2].data.email )
        => ~ ( /\ handlers[w1].created_user \in Snapshots(users_col)
               /\ handlers[w2].created_user \in Snapshots(users_col) )

\* the operations that call send_mail
Notifying == {"signup", "forgot_password", "admin_reset_password", "delete_user"}

\* C24: a request of signup, forgot_password, the admin reset or delete_user
\* is answered with its result (a success or a 400 message) also when
\* send_mail fails; it never ends in an unhandled error.  Violated: no
\* handler catches the SMTPException of send_mail, and Flask answers 500.
C24_NotifierFailureRecovered ==
    req.op \in Notifying => resp.status \in {200, 201, 400}

\* the id was handed out by the store and no document has it any more
Deleted(id) == ObjectId(id) < nextOid /\ WithId(users_col, id) = {}
Deleting == {"delete_user", "delete_account"}

\* C25: delete_user requests the notification while the document is stored
\* and removes the document only after send_mail returned; when send_mail
\* fails the handler ends and the document stays.  After delete_user or
\* delete_account removed a document no document has its id, none ever gets
\* it again, and every later request that names the id is answered
\* "User not found".
C25_NotifyThenDelete ==
    [][ \A w \in Workers :
          /\ (At(w, "delete_user", "send_mail") /\ handlers'[w] # handlers[w])
             => /\ WithId(users_col, handlers[w].id) # {}
                /\ users_col' = users_col
                /\ Len(handlers'[w].mails) = 1
                /\ handlers'[w].mails[1].mail.kind = "deleted"
                /\ IF handlers'[w].mails[1].ok
                   THEN handlers'[w].pc = "find_one_and_delete"
                   ELSE handlers'[w].pc = "done" /\ handlers'[w].resp.status # 200
          /\ (handlers[w].op = "delete_user" /\ handlers'[w].op = "delete_user"
                /\ users_col' # users_col)
             => /\ Len(handlers[w].mails) = 1
                /\ handlers[w].mails[1].ok
          /\ (handlers[w].op \in Deleting /\ handlers[w].pc = "find_one_and_delete"
                /\ handlers'[w] # handlers[w])
             => /\ handlers'[w].resp.status = 200
                /\ Deleted(handlers[w].id)'
          /\ \A id \in IdStrings : Deleted(id) => Deleted(id)'
          /\ (Accepting(w) /\ handlers'[w] # handlers[w] /\ "id" \in DOMAIN handlers'[w]
                /\ Deleted(handlers'[w].id))
             => /\ handlers'[w].pc = "done"
                /\ handlers'[w].resp \in UserNotFound
    ]_vars

C25_Witness ==
    /\ At(1, "delete_user", "done")
    /\ handlers[1].resp = Message(200, "User has been deleted")
    /\ handlers[1].mails = << Notification(Mail(handlers[1].found_user.email, "deleted",
                                                handlers[1].id, None), TRUE) >>
    /\ Deleted(handlers[1].id)

\* the operations that look a document up by id and then update it
LookupThenUpdate ==
    {"edit_account", "edit_password", "verify", "reset_password", "admin_reset_password"}

\* C26: whatever a concurrent delete of the same id does, edit_account,
\* edit_password, verify, reset_password and the admin reset return a result
\* (a success or a 400 message), never an unhandled error, and a deleted
\* document is never created again.  Violated: when the delete falls between
\* find_one and find_one_and_update of edit_account or edit_password, the
\* update returns None and the handler subscripts it.
C26_UpdateSurvivesDelete ==
    [][ /\ \A w \in Workers :
             ( /\ handlers'[w].op \in LookupThenUpdate
               /\ handlers'[w].pc = "done"
               /\ handlers'[w] # handlers[w] )
             => handlers'[w].resp.status \in {200, 201, 400}
        /\ \A id \in IdStrings : Deleted(id) => Deleted(id)'
    ]_vars

AdminOps == {"delete_user", "admin_reset_password"}

\* C27: what delete_user and the admin reset do to the collection, and what
\* they answer, is decided by the id and the collection alone: it is the same
\* for a caller without Authorization header, with the session token of a
\* user with role user and with the token of a user with role admin.
C27_AdminNotGated ==
    [][ (served' = served + 1 /\ req'.op \in AdminOps)
        => IF WithId(users_col, req'.id) = {}
           THEN /\ resp' = Message(400, "User not found")
                /\ users_col' = users_col
           ELSE /\ resp'.status = 200
                /\ IF req'.op = "delete_user"
                   THEN users_col' = find_one_and_delete(users_col,
                                                         [_id |-> ObjectId(req'.id)])
                   ELSE \E t \in RandomStrings :
                          users_col' = find_one_and_update(users_col,
                                                           [_id |-> ObjectId(req'.id)],
                                                           [resetToken |-> t])
    ]_vars

C27_Witness ==
    /\ req.op = "delete_user"
    /\ "authToken" \in DOMAIN held
    /\ held.user.role = "user"
    /\ req.headers = WithAuthorization(Bearer(held.authToken))
    /\ resp = Message(200, "User has been deleted")
    /\ Deleted(req.id)

====
